---- MODULE Spec2Model ----
(***************************************************************************)
(* A model of the my-kms key management service: the in-memory master key  *)
(* store (internal/storage/master_keys.go), the role based authorization   *)
(* function (internal/auth/rbac.go), the AES-256-GCM helpers               *)
(* (internal/crypto/aes.go), the wrapped-DEK store                         *)
(* (internal/storage/mongo_dek_store.go) and the five HTTP handlers        *)
(* (internal/server/handlers.go).  Requests are served by concurrent       *)
(* workers; every store operation is split at its lock operations.  A run  *)
(* is observed through the answer of one step: a step that answers a       *)
(* request either records the answer in last, and the observation ends     *)
(* there, or leaves it unrecorded, and the run goes on.                    *)
(*                                                                         *)
(* Spec is the server.  StoreSpec is the master key store on its own: the  *)
(* constructor on every short list of keys, then one call of GetActiveKey  *)
(* or DecryptDataKey.  CipherSpec is the packages without state on their   *)
(* own: one call of EncryptAES256GCM, then one of DecryptAES256GCM on what *)
(* became of the blob, or one call of IsAuthorized.  Both record the call  *)
(* and its result in the variable call.                                    *)
(*                                                                         *)
(* RestartSpec is the server started on a collection of wrapped DEKs that  *)
(* an earlier process left behind.  RouterSpec adds to Spec the requests   *)
(* that the routes and the authentication middleware answer themselves.    *)
(* LockSpec is the key store with its readers and writers under fair       *)
(* scheduling.                                                             *)
(***************************************************************************)
EXTENDS Integers, Sequences, FiniteSets, TLC

\* ------------------------------------------------------------------------
\* Bounds of the model
\* ------------------------------------------------------------------------
NumWorkers == 2

MaxRequests == 3

MaxRotations == 2

MaxDeks == 2

\* The longest list of master keys the store is constructed with, when the
\* constructor is examined on its own.
MaxKeys == 2

\* ------------------------------------------------------------------------
\* Program constants
\* ------------------------------------------------------------------------
KeySize == 32

NonceSize == 12

TagSize == 16

ByteMod == 256

StatusOK == 200

StatusNoContent == 204

StatusBadRequest == 400

StatusUnauthorized == 401

StatusForbidden == 403

StatusNotFound == 404

StatusInternalServerError == 500

\* ------------------------------------------------------------------------
\* Byte strings
\* ------------------------------------------------------------------------
\* make([]byte, n) filled from a random source: the model draws one seed
\* and repeats it, so that two draws differ in every byte or in none.
Bytes(seed, n) == [i \in 1..n |-> seed]

\* s[from:] of Go (from is 0-based).
SliceFrom(s, from) == SubSeq(s, from + 1, Len(s))

\* s[:to] of Go.
SliceTo(s, to) == SubSeq(s, 1, to)

\* The bounds check of the slice expressions s[:n] and s[n:]: the goroutine
\* panics when it fails.
SliceInRange(s, n) == n <= Len(s)

Panic == "panic: runtime error: slice bounds out of range"

\* ------------------------------------------------------------------------
\* crypto/aes + crypto/cipher: AES-256-GCM as an authenticated cipher.
\* The block cipher is replaced by a keyed additive stream and the GHASH tag
\* by a keyed checksum of TagSize bytes over nonce and ciphertext: every
\* byte of the data, its length and the key enter the tag, so the change of
\* one byte, a truncation or another key make the tag differ.
\* ------------------------------------------------------------------------
\* aes.NewCipher(key): fails unless the key is 16, 24 or 32 bytes long.
NewCipherOK(key) == Len(key) \in {16, 24, 32}

KeyStream(key, nonce, i) ==
    (key[((i - 1) % Len(key)) + 1] * 7 + nonce[((i - 1) % Len(nonce)) + 1] * 3 + i) % ByteMod

GCMEncryptBytes(key, nonce, plaintext) ==
    [i \in 1..Len(plaintext) |-> (plaintext[i] + KeyStream(key, nonce, i)) % ByteMod]

\* A variant that returns the encrypted bytes.
GCMDecryptBytes_Raw(key, nonce, ct) == ct

GCMDecryptBytes(key, nonce, ct) ==
    [i \in 1..Len(ct) |-> (ct[i] + ByteMod - KeyStream(key, nonce, i)) % ByteMod]

\* The weighted byte of the data at position i (nothing past its end).
TagTerm(data, i) ==
    IF i <= Len(data) THEN data[i] * (2 * ((i - 1) \div TagSize) + 1) ELSE 0

KeyMix(key, j) ==
    key[((j - 1) % Len(key)) + 1] * 3 + key[((j + 15) % Len(key)) + 1] * 5 + Len(key)

\* The tag of data that is at most 4 * TagSize bytes long.
TagOf(key, data) ==
    [j \in 1..TagSize |->
        (TagTerm(data, j) + TagTerm(data, j + TagSize) + TagTerm(data, j + 2 * TagSize)
         + TagTerm(data, j + 3 * TagSize) + KeyMix(key, j) + 17 * Len(data)) % ByteMod]

\* A variant whose tag does not depend on the key.
GCMTag_Unkeyed(key, nonce, ct) == TagOf(Bytes(0, KeySize), nonce \o ct)

GCMTag(key, nonce, ct) == TagOf(key, nonce \o ct)

\* gcm.Seal(nonce, nonce, plaintext, nil): nonce || ciphertext || tag.
Seal(key, nonce, plaintext) ==
    LET ct == GCMEncryptBytes(key, nonce, plaintext)
    IN  nonce \o ct \o GCMTag(key, nonce, ct)

\* A variant that does not compare the tag.
GCMOpen_NoVerify(key, nonce, sealed) ==
    IF Len(sealed) < TagSize
    THEN [err |-> "cipher: message authentication failed", plaintext |-> <<>>]
    ELSE [err |-> "",
          plaintext |-> GCMDecryptBytes(key, nonce, SliceTo(sealed, Len(sealed) - TagSize))]

\* gcm.Open(nil, nonce, ciphertext, nil) on the bytes after the nonce:
\* fails when they are shorter than a tag or the tag does not verify.
GCMOpen(key, nonce, sealed) ==
    IF Len(sealed) < TagSize
    THEN [err |-> "cipher: message authentication failed", plaintext |-> <<>>]
    ELSE LET ct  == SliceTo(sealed, Len(sealed) - TagSize)
             tag == SliceFrom(sealed, Len(sealed) - TagSize)
         IN  IF tag = GCMTag(key, nonce, ct)
             THEN [err |-> "", plaintext |-> GCMDecryptBytes(key, nonce, ct)]
             ELSE [err |-> "cipher: message authentication failed", plaintext |-> <<>>]

\* ------------------------------------------------------------------------
\* internal/crypto/aes.go
\* ------------------------------------------------------------------------
EncryptAES256GCM(key, plaintext, nonce) ==
    IF ~NewCipherOK(key)
    THEN [err |-> "failed to create AES cipher", ciphertext |-> <<>>]
    ELSE [err |-> "", ciphertext |-> Seal(key, nonce, plaintext)]

\* A variant without the length check before the slicing.
DecryptAES256GCM_NoLengthCheck(key, ciphertext) ==
    IF ~NewCipherOK(key)
    THEN [err |-> "failed to create AES cipher", plaintext |-> <<>>]
    ELSE IF ~SliceInRange(ciphertext, NonceSize)
    THEN [err |-> Panic, plaintext |-> <<>>]
    ELSE LET nonce        == SliceTo(ciphertext, NonceSize)
             actualCipher == SliceFrom(ciphertext, NonceSize)
             opened       == GCMOpen(key, nonce, actualCipher)
         IN  IF opened.err # ""
             THEN [err |-> "failed to decrypt ciphertext", plaintext |-> <<>>]
             ELSE [err |-> "", plaintext |-> opened.plaintext]

DecryptAES256GCM(key, ciphertext) ==
    IF ~NewCipherOK(key)
    THEN [err |-> "failed to create AES cipher", plaintext |-> <<>>]
    ELSE IF Len(ciphertext) < NonceSize
    THEN [err |-> "ciphertext too short", plaintext |-> <<>>]
    ELSE IF ~SliceInRange(ciphertext, NonceSize)
    THEN [err |-> Panic, plaintext |-> <<>>]
    ELSE LET nonce        == SliceTo(ciphertext, NonceSize)
             actualCipher == SliceFrom(ciphertext, NonceSize)
             opened       == GCMOpen(key, nonce, actualCipher)
         IN  IF opened.err # ""
             THEN [err |-> "failed to decrypt ciphertext", plaintext |-> <<>>]
             ELSE [err |-> "", plaintext |-> opened.plaintext]

\* GenerateKey: KeySize random bytes.
GenerateKey(seed) == Bytes(seed, KeySize)

\* ------------------------------------------------------------------------
\* encoding/base64 (StdEncoding).  A base64 string is the sequence of the
\* alphabet indices 0..63 of its characters; Pad stands for '='.
\* ------------------------------------------------------------------------
Pad == 64

ByteAt(b, i) == IF i <= Len(b) THEN b[i] ELSE 0

\* base64.StdEncoding.EncodeToString
Base64Encode(b) ==
    LET n == Len(b)
        groups == (n + 2) \div 3
    IN  [k \in 1..(4 * groups) |->
            LET g  == (k - 1) \div 4
                r  == (k - 1) % 4
                b1 == ByteAt(b, 3 * g + 1)
                b2 == ByteAt(b, 3 * g + 2)
                b3 == ByteAt(b, 3 * g + 3)
            IN  CASE r = 0 -> b1 \div 4
                  [] r = 1 -> (b1 % 4) * 16 + (b2 \div 16)
                  [] r = 2 -> IF 3 * g + 2 > n THEN Pad ELSE (b2 % 16) * 4 + (b3 \div 64)
                  [] r = 3 -> IF 3 * g + 3 > n THEN Pad ELSE b3 % 64]

PadCount(s) ==
    IF Len(s) >= 2 /\ s[Len(s)] = Pad /\ s[Len(s) - 1] = Pad THEN 2
    ELSE IF Len(s) >= 1 /\ s[Len(s)] = Pad THEN 1
    ELSE 0

Base64Valid(s) ==
    /\ Len(s) % 4 = 0
    /\ \A k \in 1..(Len(s) - PadCount(s)) : s[k] \in 0..63

SextetAt(s, k) == IF s[k] = Pad THEN 0 ELSE s[k]

\* base64.StdEncoding.DecodeString
Base64Decode(s) ==
    IF ~Base64Valid(s)
    THEN [err |-> "illegal base64 data", bytes |-> <<>>]
    ELSE [err |-> "",
          bytes |-> [i \in 1..(3 * (Len(s) \div 4) - PadCount(s)) |->
                LET g  == (i - 1) \div 3
                    r  == (i - 1) % 3
                    c1 == SextetAt(s, 4 * g + 1)
                    c2 == SextetAt(s, 4 * g + 2)
                    c3 == SextetAt(s, 4 * g + 3)
                    c4 == SextetAt(s, 4 * g + 4)
                IN  CASE r = 0 -> c1 * 4 + (c2 \div 16)
                      [] r = 1 -> (c2 % 16) * 16 + (c3 \div 4)
                      [] r = 2 -> (c3 % 4) * 64 + c4]]

\* ------------------------------------------------------------------------
\* encoding/json: how a json.RawMessage field is written by json.Encoder.
\* The encoder compacts the raw bytes (insignificant white space outside
\* strings is dropped) and, with its default escapeHTML setting, rewrites
\* '<', '>' and '&' as \u00XX escapes; a nil RawMessage is written as null.
\* Payloads are ASCII byte sequences.
\* ------------------------------------------------------------------------
Quote == 34

Backslash == 92

JSONSpace == {32, 9, 10, 13}

HTMLChars == {60, 62, 38}

HexDigit(d) == IF d < 10 THEN 48 + d ELSE 97 + (d - 10)

EscapeHTML(c) == <<Backslash, 117, 48, 48, HexDigit(c \div 16), HexDigit(c % 16)>>

RECURSIVE CompactFrom(_, _, _, _)
CompactFrom(src, i, inString, escaped) ==
    IF i > Len(src) THEN <<>>
    ELSE LET c == src[i]
         IN  IF inString
             THEN IF escaped THEN <<c>> \o CompactFrom(src, i + 1, TRUE, FALSE)
                  ELSE IF c = Backslash THEN <<c>> \o CompactFrom(src, i + 1, TRUE, TRUE)
                  ELSE IF c = Quote THEN <<c>> \o CompactFrom(src, i + 1, FALSE, FALSE)
                  ELSE IF c \in HTMLChars THEN EscapeHTML(c) \o CompactFrom(src, i + 1, TRUE, FALSE)
                  ELSE <<c>> \o CompactFrom(src, i + 1, TRUE, FALSE)
             ELSE IF c \in JSONSpace THEN CompactFrom(src, i + 1, FALSE, FALSE)
                  ELSE IF c = Quote THEN <<c>> \o CompactFrom(src, i + 1, TRUE, FALSE)
                  ELSE <<c>> \o CompactFrom(src, i + 1, FALSE, FALSE)

JSONNull == <<110, 117, 108, 108>>

\* json.NewEncoder(w).Encode of a struct field of type json.RawMessage.
MarshalRawMessage(m) == IF m = <<>> THEN JSONNull ELSE CompactFrom(m, 1, FALSE, FALSE)

\* ------------------------------------------------------------------------
\* internal/auth/rbac.go
\* ------------------------------------------------------------------------
RoleAdmin == "ADMIN"

RoleService == "SERVICE"

RoleAuditor == "AUDITOR"

ActionGenerateDataKey == "GENERATE_DATA_KEY"

ActionEncrypt == "ENCRYPT"

ActionDecrypt == "DECRYPT"

ActionRotateMasterKey == "ROTATE_MASTER_KEY"

\* The roles a user record may carry: the three defined ones and a value
\* that is none of them.
Roles == {RoleAdmin, RoleService, RoleAuditor, "GUEST"}

\* A variant in which SERVICE is allowed every action.
IsAuthorized_ServiceAll(role, action) ==
    CASE role \in {RoleAdmin, RoleService} -> ""
      [] role = RoleAuditor -> "action not authorized for AUDITOR role"
      [] OTHER -> "unknown role"

\* A variant that denies nothing.
IsAuthorized_NoCheck(role, action) == ""

\* IsAuthorized returns nil ("" here) or an error with a message.
IsAuthorized(role, action) ==
    CASE role = RoleAdmin -> ""
      [] role = RoleService ->
            IF action \in {ActionGenerateDataKey, ActionEncrypt, ActionDecrypt}
            THEN ""
            ELSE "action not authorized for SERVICE role"
      [] role = RoleAuditor -> "action not authorized for AUDITOR role"
      [] OTHER -> "unknown role"

\* ------------------------------------------------------------------------
\* internal/storage/master_keys.go
\* ------------------------------------------------------------------------
\* Key ids are pairs: <<"k", i>> for the ids of the configuration and
\* <<"uuid", n>> for the n-th value returned by uuid.New().
NoId == <<"", 0>>

ConfigId(i) == <<"k", i>>

\* A variant that returns the same value at every call.
NewUUID_Fixed(n) == <<"uuid", 1>>

\* A variant that returns the id of the first configured key.
NewUUID_First(n) == ConfigId(0)

\* uuid.New().String(): n counts the values issued so far in the process.
NewUUID(n) == <<"uuid", n>>

\* MasterKey{}: the zero value.
NoKey == [ID |-> NoId, Key |-> <<>>]

\* m[id] = k on a Go map.
MapPut(m, id, k) == [x \in (DOMAIN m) \cup {id} |-> IF x = id THEN k ELSE m[x]]

EmptyMap == [x \in {} |-> NoKey]

RECURSIVE MkMap(_, _)
MkMap(keys, n) ==
    IF n = 0 THEN EmptyMap ELSE MapPut(MkMap(keys, n - 1), keys[n].ID, keys[n])

\* A variant that validates the first key only.
NewMasterKeyStore_FirstOnly(keys) ==
    IF Len(keys) = 0
    THEN [err |-> "no master keys provided", masterKeys |-> EmptyMap, activeKeyID |-> NoId]
    ELSE IF Len(keys[1].Key) # KeySize
    THEN [err |-> "master key must be 32 bytes for AES-256",
          masterKeys |-> EmptyMap, activeKeyID |-> NoId]
    ELSE [err |-> "", masterKeys |-> MkMap(keys, Len(keys)), activeKeyID |-> keys[1].ID]

NewMasterKeyStore(keys) ==
    IF Len(keys) = 0
    THEN [err |-> "no master keys provided", masterKeys |-> EmptyMap, activeKeyID |-> NoId]
    ELSE IF \E i \in 1..Len(keys) : Len(keys[i].Key) # KeySize
    THEN [err |-> "master key must be 32 bytes for AES-256",
          masterKeys |-> EmptyMap, activeKeyID |-> NoId]
    ELSE [err |-> "", masterKeys |-> MkMap(keys, Len(keys)), activeKeyID |-> keys[1].ID]

\* key, exists := m.masterKeys[id]
Lookup(m, id) ==
    IF id \in DOMAIN m THEN [key |-> m[id], exists |-> TRUE]
    ELSE [key |-> NoKey, exists |-> FALSE]

\* EncryptDataKey after the read-locked lookup: the part that runs on the
\* local copy of the active key.
EncryptDataKeyWith(activeKey, exists, dek, randOK, nonce) ==
    IF ~exists
    THEN [err |-> "active master key not found", ciphertext |-> <<>>, id |-> NoId]
    ELSE IF ~NewCipherOK(activeKey.Key)
    THEN [err |-> "crypto/aes: invalid key size", ciphertext |-> <<>>, id |-> NoId]
    ELSE IF ~randOK
    THEN [err |-> "rand: read failed", ciphertext |-> <<>>, id |-> NoId]
    ELSE [err |-> "", ciphertext |-> Seal(activeKey.Key, nonce, dek), id |-> activeKey.ID]

\* A variant with one error for every failure.
DecryptDataKeyWith_OneError(mk, exists, encryptedDEK) ==
    IF exists /\ NewCipherOK(mk.Key) /\ Len(encryptedDEK) >= NonceSize
              /\ GCMOpen(mk.Key, SliceTo(encryptedDEK, NonceSize),
                         SliceFrom(encryptedDEK, NonceSize)).err = ""
    THEN [err |-> "",
          dek |-> GCMOpen(mk.Key, SliceTo(encryptedDEK, NonceSize),
                          SliceFrom(encryptedDEK, NonceSize)).plaintext]
    ELSE [err |-> "specified master key not found", dek |-> <<>>]

\* DecryptDataKey after the read-locked lookup.
DecryptDataKeyWith(mk, exists, encryptedDEK) ==
    IF ~exists
    THEN [err |-> "specified master key not found", dek |-> <<>>]
    ELSE IF ~NewCipherOK(mk.Key)
    THEN [err |-> "crypto/aes: invalid key size", dek |-> <<>>]
    ELSE IF Len(encryptedDEK) < NonceSize
    THEN [err |-> "ciphertext too short", dek |-> <<>>]
    ELSE IF ~SliceInRange(encryptedDEK, NonceSize)
    THEN [err |-> Panic, dek |-> <<>>]
    ELSE LET opened == GCMOpen(mk.Key, SliceTo(encryptedDEK, NonceSize),
                               SliceFrom(encryptedDEK, NonceSize))
         IN  IF opened.err # ""
             THEN [err |-> opened.err, dek |-> <<>>]
             ELSE [err |-> "", dek |-> opened.plaintext]

\* A variant that forgets the insert.
RotatedKeys_NoInsert(m, newMK) == m

\* A variant that starts a new table with the new key.
RotatedKeys_Replace(m, newMK) == [x \in {newMK.ID} |-> newMK]

\* A variant that gives every entry the material of the new key.
RotatedKeys_Rekey(m, newMK) ==
    [x \in (DOMAIN m) \cup {newMK.ID} |-> [ID |-> x, Key |-> newMK.Key]]

\* The key table after m.masterKeys[newKeyID] = newMK.
RotatedKeys(m, newMK) == MapPut(m, newMK.ID, newMK)

\* sync.RWMutex: w is the worker that holds the writer mutex (0 when free),
\* readers the workers inside a read-locked section.  A writer that holds w
\* has announced itself: no new reader enters, and the writer proceeds once
\* the readers have left.
RLockAvailable_Always(m) == TRUE

RLockAvailable(m) == m.w = 0

\* A variant without mutual exclusion of the writers.
LockAvailable_Always(m) == TRUE

LockAvailable(m) == m.w = 0

ReadersDrained(m) == m.readers = {}

\* ------------------------------------------------------------------------
\* internal/storage/mongo_dek_store.go.  The collection is a function from
\* ObjectIDs (counted from 1) to documents; the id 0 stands for a string
\* that is not the hex form of an ObjectID.
\* ------------------------------------------------------------------------
NoDoc == [DEK |-> <<>>, MasterKeyID |-> NoId]

ValidHex(id) == id # 0

\* What collection.InsertOne may do: write the document and return its id,
\* fail without writing, or write the document and return an error all the
\* same (the request's context is cancelled or the connection is lost after
\* the server has applied the write).
InsertOutcomes == {"ok", "failed", "unacknowledged"}

\* res.InsertedID.(primitive.ObjectID): the driver generates the _id of a
\* document that has none, and it generates an ObjectID.
IsObjectID(oid) == oid # 0

\* A variant that stores the wrapped DEK without its last byte.
InsertDEK_Clipped(coll, oid, dekEncrypted, masterKeyID, outcome) ==
    [err |-> "", id |-> oid,
     coll |-> [x \in (DOMAIN coll) \cup {oid} |->
                IF x = oid
                THEN [DEK |-> SliceTo(dekEncrypted, Len(dekEncrypted) - 1),
                      MasterKeyID |-> masterKeyID]
                ELSE coll[x]]]

InsertDEK(coll, oid, dekEncrypted, masterKeyID, outcome) ==
    LET written == [x \in (DOMAIN coll) \cup {oid} |->
                       IF x = oid THEN [DEK |-> dekEncrypted, MasterKeyID |-> masterKeyID]
                       ELSE coll[x]]
    IN  IF outcome = "failed"
        THEN [err |-> "failed to insert DEK", id |-> 0, coll |-> coll]
        ELSE IF outcome = "unacknowledged"
        THEN [err |-> "failed to insert DEK", id |-> 0, coll |-> written]
        ELSE IF ~IsObjectID(oid)
        THEN [err |-> "failed to convert inserted ID to ObjectID", id |-> 0,
              coll |-> written]
        ELSE [err |-> "", id |-> oid, coll |-> written]

GetDEK(coll, id, ioOK) ==
    IF ~ValidHex(id) THEN [err |-> "invalid DEK ID format", doc |-> NoDoc]
    ELSE IF ~ioOK THEN [err |-> "error retrieving DEK", doc |-> NoDoc]
    ELSE IF id \notin DOMAIN coll THEN [err |-> "no DEK found with ID", doc |-> NoDoc]
    ELSE [err |-> "", doc |-> coll[id]]

DeleteDEK(coll, id, ioOK) ==
    IF ~ValidHex(id) THEN [err |-> "invalid DEK ID format", coll |-> coll]
    ELSE IF ~ioOK THEN [err |-> "failed to delete DEK", coll |-> coll]
    ELSE [err |-> "", coll |-> [x \in (DOMAIN coll) \ {id} |-> coll[x]]]

\* ------------------------------------------------------------------------
\* Inputs
\* ------------------------------------------------------------------------
Workers == 1..NumWorkers

OpGenerate == "GenerateDataKey"

OpEncrypt == "Encrypt"

OpDecrypt == "Decrypt"

OpRotate == "RotateMasterKey"

OpDelete == "DeleteDataKey"

OpGetActiveKey == "GetActiveKey"

HandlerOps == {OpGenerate, OpEncrypt, OpDecrypt, OpRotate, OpDelete}

\* A variant in which DeleteDataKeyHandler asks for the DECRYPT action.
ActionOfOp_DeleteAsDecrypt(op) ==
    CASE op = OpGenerate -> ActionGenerateDataKey
      [] op = OpEncrypt -> ActionEncrypt
      [] op = OpDecrypt -> ActionDecrypt
      [] op = OpRotate -> ActionRotateMasterKey
      [] op = OpDelete -> ActionDecrypt

\* The action each handler passes to IsAuthorized.
ActionOfOp(op) ==
    CASE op = OpGenerate -> ActionGenerateDataKey
      [] op = OpEncrypt -> ActionEncrypt
      [] op = OpDecrypt -> ActionDecrypt
      [] op = OpRotate -> ActionRotateMasterKey
      [] op = OpDelete -> ActionRotateMasterKey

\* Seeds of the random byte strings drawn by the program.
MasterSeeds == {10}

DekSeeds == {20}

NonceSeeds == {30}

\* {"x":1}
PayloadCompact == <<123, 34, 120, 34, 58, 49, 125>>

\* {"x": 1}
PayloadSpaced == <<123, 34, 120, 34, 58, 32, 49, 125>>

Payloads == {PayloadCompact, PayloadSpaced}

\* A string with a character outside the base64 alphabet.
NotBase64 == <<99>>

\* The MASTER_KEYS lists the process may be started with.
GoodKey(i, seed) == [ID |-> ConfigId(i), Key |-> Bytes(seed, KeySize)]

KeyLists ==
    { <<GoodKey(0, 1), GoodKey(1, 2)>>,
      <<>>,
      <<[ID |-> ConfigId(0), Key |-> Bytes(1, KeySize - 1)]>>,
      <<GoodKey(0, 1), [ID |-> ConfigId(1), Key |-> Bytes(2, KeySize + 1)]>> }

\* ------------------------------------------------------------------------
\* State
\* ------------------------------------------------------------------------
VARIABLES
    call,         \* the last direct call: the function, its arguments, its result
    storeErr,     \* error of NewMasterKeyStore ("" when the store exists)
    masterKeys,   \* MasterKeyStore.masterKeys
    activeKeyID,  \* MasterKeyStore.activeKeyID
    mu,           \* MasterKeyStore.mu
    deks,         \* the DEK collection
    oids,         \* number of ObjectIDs issued
    uuids,        \* number of uuids issued
    pc,           \* position of each worker in its handler
    req,          \* the request each worker serves
    loc,          \* the local variables of the handler and of the store call
    last,         \* the answer an observed run ends with: identity, request, response
    nreq,         \* requests started
    ngen,         \* data keys generated
    wraps,        \* history: results returned by EncryptDataKey
    encs,         \* history: ciphertexts returned by Encrypt
    activeHist    \* history: the values activeKeyID has taken

vars == <<call, storeErr, masterKeys, activeKeyID, mu, deks, oids, uuids, pc, req, loc,
          last, nreq, ngen, wraps, encs, activeHist>>

\* A request: the route, what it carries as credentials and the fields of
\* its body.
NoReq == [op |-> "none", cred |-> "ok", dekID |-> 0, jsonData |-> <<>>,
          ciphertext |-> <<>>, bodyOK |-> TRUE]

\* The locals of a handler and of the store method it is in; since is the
\* number of values activeKeyID had taken when EncryptDataKey was entered.
NoLoc == [dek |-> <<>>, key |-> NoKey, exists |-> FALSE, doc |-> NoDoc,
          newMK |-> NoKey, prevKeys |-> EmptyMap, sawHalf |-> FALSE, since |-> 0]

\* A response: the status and message of http.Error, or the fields of the
\* JSON response.  For a call of GetActiveKey, key is the MasterKey returned
\* and msg the error.
NoResp == [status |-> 0, msg |-> "", dekID |-> 0, masterKeyID |-> NoId,
           ciphertext |-> <<>>, jsonData |-> <<>>, key |-> NoKey,
           plaintextDEK |-> <<>>, encryptedDEK |-> <<>>]

\* No answer has been recorded.
NoLast == [role |-> "", req |-> NoReq, resp |-> NoResp]

\* http.Error(w, msg, status)
HttpError(msg, status) == [NoResp EXCEPT !.status = status, !.msg = msg]

\* A call of a function of the storage or crypto package: the arguments it
\* was given (keys; id; key, plaintext, nonce; blob, the blob it was derived
\* from and the key that one was sealed with; role and action) and what it
\* returned.
NoCall == [fn |-> "none", keys |-> <<>>, id |-> NoId, key |-> <<>>, plaintext |-> <<>>,
           nonce |-> <<>>, sealKey |-> <<>>, base |-> <<>>, blob |-> <<>>,
           role |-> "", action |-> "", err |-> "", out |-> <<>>, outKey |-> NoKey]

\* main: storage.NewMasterKeyStore(storageMasterKeys) with one of the lists,
\* before the server starts, and storage.NewMongoDEKStore on a collection
\* that holds the documents coll, the last of them inserted as number n.
BootWith(lists, coll, n) ==
    \E keys \in lists :
        LET st == NewMasterKeyStore(keys)
        IN  /\ call = [NoCall EXCEPT !.fn = "NewMasterKeyStore", !.keys = keys,
                                     !.err = st.err]
            /\ storeErr = st.err
            /\ masterKeys = st.masterKeys
            /\ activeKeyID = st.activeKeyID
            /\ activeHist = IF st.err = "" THEN <<st.activeKeyID>> ELSE <<>>
            /\ mu = [w |-> 0, readers |-> {}]
            /\ deks = coll
            /\ oids = n
            /\ uuids = 0
            /\ pc = [w \in Workers |-> "idle"]
            /\ req = [w \in Workers |-> NoReq]
            /\ loc = [w \in Workers |-> NoLoc]
            /\ last = NoLast
            /\ nreq = 0
            /\ ngen = 0
            /\ wraps = {}
            /\ encs = {}

\* The server starts on an empty collection.
Boot(lists) == BootWith(lists, [x \in {} |-> NoDoc], 0)

Init == Boot(KeyLists)

\* A rotation has inserted its key and not yet repointed activeKeyID.
HalfUpdated == \E v \in Workers : pc[v] = "rot_setactive"

\* The worker writes the response r to the request q of the identity role
\* (known to the step that authorizes) and its handler returns: the worker is
\* free again.  The answer is either recorded in last, which ends the
\* observation of the run, or left unrecorded, and the run goes on.
Return(w, role, q, r) ==
    /\ \E record \in BOOLEAN :
        last' = IF record THEN [role |-> role, req |-> q, resp |-> r] ELSE NoLast
    /\ pc' = [pc EXCEPT ![w] = "idle"]
    /\ req' = [req EXCEPT ![w] = NoReq]
    /\ loc' = [loc EXCEPT ![w] = NoLoc]

\* The worker moves on inside its handler, with the locals l.
Goto(w, label, l) ==
    /\ pc' = [pc EXCEPT ![w] = label]
    /\ loc' = [loc EXCEPT ![w] = l]
    /\ last' = NoLast
    /\ UNCHANGED req

\* The handler of the request q goes on to label, with the locals l.
Admit(w, q, label, l) ==
    /\ pc' = [pc EXCEPT ![w] = label]
    /\ req' = [req EXCEPT ![w] = q]
    /\ loc' = [loc EXCEPT ![w] = l]
    /\ last' = NoLast

\* The worker is at label, in a run whose observation has not ended.
At(w, label) ==
    /\ last = NoLast
    /\ pc[w] = label

\* A request arrives at a free worker.
Arrives(w) ==
    /\ storeErr = ""
    /\ At(w, "idle")
    /\ nreq < MaxRequests
    /\ nreq' = nreq + 1

\* ------------------------------------------------------------------------
\* Requests
\* ------------------------------------------------------------------------
DekIdInputs == 0..MaxDeks

\* The base64 string s with the character at position i replaced by the
\* next one of the alphabet.
CharChangedAt(s, i) == [s EXCEPT ![i] = (@ + 1) % Pad]

\* The first characters of s that decode to fewer bytes than a nonce.
Truncated(s) == SliceTo(s, 4 * ((NonceSize - 1) \div 3))

\* s with the first byte after the nonce changed.
BodyChanged(s) == CharChangedAt(s, 4 * (NonceSize \div 3) + 1)

\* s with a byte of the tag changed (the last character of the last group
\* but one).
TagChanged(s) == CharChangedAt(s, Len(s) - 4)

\* A payload sealed by the caller under a key that is no DEK of the service.
ForeignCiphertext ==
    Base64Encode(EncryptAES256GCM(Bytes(21, KeySize), PayloadCompact,
                                  Bytes(31, NonceSize)).ciphertext)

\* What a caller can make of the ciphertexts /encrypt has returned so far
\* that is still base64 and no longer what /encrypt returned.
RefusedInputs ==
    {Truncated(e.ciphertext) : e \in encs}
    \cup {BodyChanged(e.ciphertext) : e \in encs}
    \cup {TagChanged(e.ciphertext) : e \in encs}
    \cup {ForeignCiphertext}

\* The base64 strings a caller may submit to /decrypt: what /encrypt has
\* returned so far, what the caller can make of it, or a string that is not
\* base64.
CiphertextInputs == {e.ciphertext : e \in encs} \cup RefusedInputs \cup {NotBase64}

Request(op) == [NoReq EXCEPT !.op = op]

\* What json.NewDecoder(r.Body).Decode(&req) may find: a body that does not
\* parse, or the DEK id of one that does.  The other field of the body is
\* drawn by the step that reads it.
Bodies(op) ==
    {[Request(op) EXCEPT !.bodyOK = FALSE]}
    \cup {[Request(op) EXCEPT !.dekID = d] : d \in DekIdInputs}

\* ------------------------------------------------------------------------
\* GenerateDataKeyHandler
\* ------------------------------------------------------------------------
\* getIdentity, auth.IsAuthorized and crypto.GenerateKey()
GenerateDataKeyStart(w) ==
    /\ Arrives(w)
    /\ \E role \in Roles :
        LET q == Request(OpGenerate)
            err == IsAuthorized(role, ActionOfOp(OpGenerate))
        IN  IF err # ""
            THEN /\ Return(w, role, q, HttpError(err, StatusForbidden))
                 /\ UNCHANGED ngen
            ELSE \E randOK \in BOOLEAN, seed \in DekSeeds :
                    IF ~randOK
                    THEN /\ Return(w, role, q, HttpError("internal server error",
                                                         StatusInternalServerError))
                         /\ UNCHANGED ngen
                    ELSE /\ ngen < MaxDeks
                         /\ ngen' = ngen + 1
                         /\ Admit(w, q, "edk_rlock",
                                  [NoLoc EXCEPT !.dek = GenerateKey(seed)])
    /\ UNCHANGED <<call, storeErr, masterKeys, activeKeyID, mu, deks, oids, uuids,
                   wraps, encs, activeHist>>

\* EncryptDataKey: m.mu.RLock()
EncryptDataKeyRLock(w) ==
    /\ At(w, "edk_rlock")
    /\ RLockAvailable(mu)
    /\ mu' = [mu EXCEPT !.readers = @ \cup {w}]
    /\ Goto(w, "edk_read", [loc[w] EXCEPT !.since = Len(activeHist)])
    /\ UNCHANGED <<call, storeErr, masterKeys, activeKeyID, deks, oids, uuids,
                   nreq, ngen, wraps, encs, activeHist>>

\* A variant that reads the first key the store was constructed with.
EncryptDataKeyRead_First(w) ==
    /\ At(w, "edk_read")
    /\ LET l == Lookup(masterKeys, activeHist[1])
       IN  Goto(w, "edk_seal", [loc[w] EXCEPT !.key = l.key, !.exists = l.exists,
                                              !.sawHalf = HalfUpdated])
    /\ mu' = [mu EXCEPT !.readers = @ \ {w}]
    /\ UNCHANGED <<call, storeErr, masterKeys, activeKeyID, deks, oids, uuids,
                   nreq, ngen, wraps, encs, activeHist>>

\* A variant that keeps the read lock until the handler returns.
EncryptDataKeyRead_NoUnlock(w) ==
    /\ At(w, "edk_read")
    /\ LET l == Lookup(masterKeys, activeKeyID)
       IN  Goto(w, "edk_seal", [loc[w] EXCEPT !.key = l.key, !.exists = l.exists,
                                              !.sawHalf = HalfUpdated])
    /\ UNCHANGED <<call, storeErr, masterKeys, activeKeyID, mu, deks, oids, uuids,
                   nreq, ngen, wraps, encs, activeHist>>

\* EncryptDataKey: activeKey, exists := m.masterKeys[m.activeKeyID], and
\* m.mu.RUnlock()
EncryptDataKeyRead(w) ==
    /\ At(w, "edk_read")
    /\ LET l == Lookup(masterKeys, activeKeyID)
       IN  Goto(w, "edk_seal", [loc[w] EXCEPT !.key = l.key, !.exists = l.exists,
                                              !.sawHalf = HalfUpdated])
    /\ mu' = [mu EXCEPT !.readers = @ \ {w}]
    /\ UNCHANGED <<call, storeErr, masterKeys, activeKeyID, deks, oids, uuids,
                   nreq, ngen, wraps, encs, activeHist>>

\* EncryptDataKey: the cipher, the nonce and the seal; then the handler's
\* check of the returned error, s.DEKStore.InsertDEK and the response.
GenerateInsert(w) ==
    /\ At(w, "edk_seal")
    /\ \E randOK \in BOOLEAN, n \in NonceSeeds :
        LET e == EncryptDataKeyWith(loc[w].key, loc[w].exists, loc[w].dek, randOK,
                                    Bytes(n, NonceSize))
        IN  IF e.err # ""
            THEN /\ Return(w, "", req[w], HttpError("encryption failed",
                                                    StatusInternalServerError))
                 /\ UNCHANGED <<deks, oids, wraps>>
            ELSE /\ wraps' = wraps \cup {[dek |-> loc[w].dek, blob |-> e.ciphertext,
                                          id |-> e.id]}
                 /\ \E outcome \in InsertOutcomes :
                      LET r == InsertDEK(deks, oids + 1, e.ciphertext, e.id, outcome)
                      IN  IF r.err # ""
                          THEN /\ deks' = r.coll
                               /\ oids' = IF r.coll = deks THEN oids ELSE oids + 1
                               /\ Return(w, "", req[w],
                                         HttpError("internal server error",
                                                   StatusInternalServerError))
                          ELSE /\ deks' = r.coll
                               /\ oids' = oids + 1
                               /\ Return(w, "", req[w],
                                         [NoResp EXCEPT !.status = StatusOK,
                                                        !.dekID = r.id,
                                                        !.masterKeyID = e.id])
    /\ UNCHANGED <<call, storeErr, masterKeys, activeKeyID, mu, uuids,
                   nreq, ngen, encs, activeHist>>

\* ------------------------------------------------------------------------
\* GenerateDataKeyHandler, first definition.  The sources define the handler
\* of /generate-data-key twice, and which definition the server is built
\* with is not determined by them: a request is served by either.  The two
\* differ in what they do before the DEK is generated and after it is
\* wrapped; the call of EncryptDataKey in between is the same.
\* ------------------------------------------------------------------------
\* The identity, auth.IsAuthorized, the decoding of the request body and
\* crypto.GenerateKey()
GenerateDataKeyStartFirst(w) ==
    /\ Arrives(w)
    /\ \E role \in Roles :
        LET err == IsAuthorized(role, ActionOfOp(OpGenerate))
        IN  IF err # ""
            THEN /\ Return(w, role, Request(OpGenerate), HttpError(err, StatusForbidden))
                 /\ UNCHANGED ngen
            ELSE \E bodyOK \in BOOLEAN :
                    LET q == [Request(OpGenerate) EXCEPT !.bodyOK = bodyOK]
                    IN  IF ~bodyOK
                        THEN /\ Return(w, role, q, HttpError("invalid request body",
                                                             StatusBadRequest))
                             /\ UNCHANGED ngen
                        ELSE \E randOK \in BOOLEAN, seed \in DekSeeds :
                                IF ~randOK
                                THEN /\ Return(w, role, q,
                                               HttpError("internal server error",
                                                         StatusInternalServerError))
                                     /\ UNCHANGED ngen
                                ELSE /\ ngen < MaxDeks
                                     /\ ngen' = ngen + 1
                                     /\ Admit(w, q, "edk_rlock",
                                              [NoLoc EXCEPT !.dek = GenerateKey(seed)])
    /\ UNCHANGED <<call, storeErr, masterKeys, activeKeyID, mu, deks, oids, uuids,
                   wraps, encs, activeHist>>

\* EncryptDataKey: the cipher, the nonce and the seal; then the response
\* with the base64 forms of the DEK and of the wrapped DEK.
GenerateRespondFirst(w) ==
    /\ At(w, "edk_seal")
    /\ \E randOK \in BOOLEAN, n \in NonceSeeds :
        LET e == EncryptDataKeyWith(loc[w].key, loc[w].exists, loc[w].dek, randOK,
                                    Bytes(n, NonceSize))
        IN  IF e.err # ""
            THEN /\ Return(w, "", req[w], HttpError("encryption failed",
                                                    StatusInternalServerError))
                 /\ UNCHANGED wraps
            ELSE /\ wraps' = wraps \cup {[dek |-> loc[w].dek, blob |-> e.ciphertext,
                                          id |-> e.id]}
                 /\ Return(w, "", req[w],
                           [NoResp EXCEPT !.status = StatusOK,
                                          !.plaintextDEK = Base64Encode(loc[w].dek),
                                          !.encryptedDEK = Base64Encode(e.ciphertext),
                                          !.masterKeyID = e.id])
    /\ UNCHANGED <<call, storeErr, masterKeys, activeKeyID, mu, deks, oids, uuids,
                   nreq, ngen, encs, activeHist>>

\* ------------------------------------------------------------------------
\* EncryptHandler and DecryptHandler
\* ------------------------------------------------------------------------
\* getIdentity and auth.IsAuthorized; then the body is decoded and the DEK
\* document fetched with s.DEKStore.GetDEK.
HandlerGetDEK(w, op) ==
    /\ Arrives(w)
    /\ \E role \in Roles :
        LET err == IsAuthorized(role, ActionOfOp(op))
        IN  IF err # ""
            THEN Return(w, role, Request(op), HttpError(err, StatusForbidden))
            ELSE \E q \in Bodies(op) :
                    IF ~q.bodyOK
                    THEN Return(w, role, q, HttpError("invalid request body",
                                                      StatusBadRequest))
                    ELSE \E ioOK \in BOOLEAN :
                            LET r == GetDEK(deks, q.dekID, ioOK)
                            IN  IF r.err # ""
                                THEN Return(w, role, q, HttpError("DEK not found",
                                                                  StatusBadRequest))
                                ELSE Admit(w, q, "ddk_rlock", [NoLoc EXCEPT !.doc = r.doc])
    /\ UNCHANGED <<call, storeErr, masterKeys, activeKeyID, mu, deks, oids, uuids,
                   ngen, wraps, encs, activeHist>>

EncryptStart(w) == HandlerGetDEK(w, OpEncrypt)

DecryptStart(w) == HandlerGetDEK(w, OpDecrypt)

\* DecryptDataKey: m.mu.RLock()
DecryptDataKeyRLock(w) ==
    /\ At(w, "ddk_rlock")
    /\ RLockAvailable(mu)
    /\ mu' = [mu EXCEPT !.readers = @ \cup {w}]
    /\ Goto(w, "ddk_read", loc[w])
    /\ UNCHANGED <<call, storeErr, masterKeys, activeKeyID, deks, oids, uuids,
                   nreq, ngen, wraps, encs, activeHist>>

\* DecryptDataKey: mk, exists := m.masterKeys[masterKeyID], and
\* m.mu.RUnlock()
DecryptDataKeyRead(w) ==
    /\ At(w, "ddk_read")
    /\ LET l == Lookup(masterKeys, loc[w].doc.MasterKeyID)
       IN  Goto(w, IF req[w].op = OpEncrypt THEN "e_encrypt" ELSE "d_decrypt",
                [loc[w] EXCEPT !.key = l.key, !.exists = l.exists,
                               !.sawHalf = HalfUpdated])
    /\ mu' = [mu EXCEPT !.readers = @ \ {w}]
    /\ UNCHANGED <<call, storeErr, masterKeys, activeKeyID, deks, oids, uuids,
                   nreq, ngen, wraps, encs, activeHist>>

\* What EncryptHandler and DecryptHandler answer when DecryptDataKey
\* returns an error.
UnwrapFailed == HttpError("failed to unwrap DEK", StatusInternalServerError)

\* EncryptHandler: the rest of DecryptDataKey (the cipher and gcm.Open), the
\* check of its error, crypto.EncryptAES256GCM(dek, req.JSONData) and the
\* response.
EncryptPayload(w) ==
    /\ At(w, "e_encrypt")
    /\ LET u == DecryptDataKeyWith(loc[w].key, loc[w].exists, loc[w].doc.DEK)
       IN  \E p \in Payloads, randOK \in BOOLEAN, n \in NonceSeeds :
            LET q == [req[w] EXCEPT !.jsonData = p]
                r == IF randOK
                     THEN EncryptAES256GCM(u.dek, q.jsonData, Bytes(n, NonceSize))
                     ELSE [err |-> "failed to generate nonce", ciphertext |-> <<>>]
                c == Base64Encode(r.ciphertext)
            IN  IF u.err # ""
                THEN /\ Return(w, "", q, UnwrapFailed)
                     /\ UNCHANGED encs
                ELSE IF r.err # ""
                THEN /\ Return(w, "", q, HttpError("encryption failed",
                                                   StatusInternalServerError))
                     /\ UNCHANGED encs
                ELSE /\ Return(w, "", q, [NoResp EXCEPT !.status = StatusOK,
                                                        !.ciphertext = c])
                     /\ encs' = encs \cup {[dekID |-> q.dekID, jsonData |-> q.jsonData,
                                            ciphertext |-> c]}
    /\ UNCHANGED <<call, storeErr, masterKeys, activeKeyID, mu, deks, oids, uuids,
                   nreq, ngen, wraps, activeHist>>

\* DecryptHandler: the rest of DecryptDataKey, the check of its error, the
\* base64 decoding, crypto.DecryptAES256GCM(dek, ciphertextBytes) and the
\* response, whose jsonData field is a json.RawMessage.
DecryptPayload(w) ==
    /\ At(w, "d_decrypt")
    /\ LET u == DecryptDataKeyWith(loc[w].key, loc[w].exists, loc[w].doc.DEK)
       IN  \E c \in CiphertextInputs :
            LET q == [req[w] EXCEPT !.ciphertext = c]
                b == Base64Decode(q.ciphertext)
                r == DecryptAES256GCM(u.dek, b.bytes)
            IN  IF u.err # ""
                THEN Return(w, "", q, UnwrapFailed)
                ELSE IF b.err # ""
                THEN Return(w, "", q, HttpError("invalid base64 ciphertext",
                                                StatusBadRequest))
                ELSE IF r.err # ""
                THEN Return(w, "", q, HttpError("decryption failed",
                                                StatusInternalServerError))
                ELSE Return(w, "", q, [NoResp EXCEPT !.status = StatusOK,
                                           !.jsonData = MarshalRawMessage(r.plaintext)])
    /\ UNCHANGED <<call, storeErr, masterKeys, activeKeyID, mu, deks, oids, uuids,
                   nreq, ngen, wraps, encs, activeHist>>

\* ------------------------------------------------------------------------
\* RotateMasterKeyHandler and MasterKeyStore.RotateMasterKey
\* ------------------------------------------------------------------------
\* getIdentity and auth.IsAuthorized; then RotateMasterKey's
\* rand.Read(newKeyBytes) and uuid.New().  Successive draws of key material
\* differ.
RotateStart(w) ==
    /\ Arrives(w)
    /\ \E role \in Roles :
        LET q == Request(OpRotate)
            err == IsAuthorized(role, ActionOfOp(OpRotate))
        IN  IF err # ""
            THEN /\ Return(w, role, q, HttpError(err, StatusForbidden))
                 /\ UNCHANGED uuids
            ELSE \E randOK \in BOOLEAN, seed \in MasterSeeds :
                    IF ~randOK
                    THEN /\ Return(w, role, q, HttpError("master key rotation failed",
                                                         StatusInternalServerError))
                         /\ UNCHANGED uuids
                    ELSE /\ uuids < MaxRotations
                         /\ uuids' = uuids + 1
                         /\ Admit(w, q, "rot_lock",
                                  [NoLoc EXCEPT !.newMK = [ID |-> NewUUID(uuids + 1),
                                                           Key |-> Bytes(seed + uuids,
                                                                         KeySize)]])
    /\ UNCHANGED <<call, storeErr, masterKeys, activeKeyID, mu, deks, oids,
                   ngen, wraps, encs, activeHist>>

\* m.mu.Lock(), first half: the writer mutex is taken and the writer is
\* announced to the readers.
RotateLock(w) ==
    /\ At(w, "rot_lock")
    /\ LockAvailable(mu)
    /\ mu' = [mu EXCEPT !.w = w]
    /\ Goto(w, "rot_wait", loc[w])
    /\ UNCHANGED <<call, storeErr, masterKeys, activeKeyID, deks, oids, uuids,
                   nreq, ngen, wraps, encs, activeHist>>

\* m.mu.Lock(), second half: the readers that were inside have left.
RotateLockAcquired(w) ==
    /\ At(w, "rot_wait")
    /\ ReadersDrained(mu)
    /\ Goto(w, "rot_insert", loc[w])
    /\ UNCHANGED <<call, storeErr, masterKeys, activeKeyID, mu, deks, oids, uuids,
                   nreq, ngen, wraps, encs, activeHist>>

\* m.masterKeys[newKeyID] = newMK
RotateInsert(w) ==
    /\ At(w, "rot_insert")
    /\ masterKeys' = RotatedKeys(masterKeys, loc[w].newMK)
    /\ Goto(w, "rot_setactive", [loc[w] EXCEPT !.prevKeys = masterKeys])
    /\ UNCHANGED <<call, storeErr, activeKeyID, mu, deks, oids, uuids,
                   nreq, ngen, wraps, encs, activeHist>>

\* m.activeKeyID = newKeyID
RotateSetActive(w) ==
    /\ At(w, "rot_setactive")
    /\ activeKeyID' = loc[w].newMK.ID
    /\ activeHist' = Append(activeHist, loc[w].newMK.ID)
    /\ Goto(w, "rot_unlock", loc[w])
    /\ UNCHANGED <<call, storeErr, masterKeys, mu, deks, oids, uuids,
                   nreq, ngen, wraps, encs>>

\* A variant that re-wraps: it repoints every stored record to the new key.
RotateUnlock_Rewrap(w) ==
    /\ At(w, "rot_unlock")
    /\ mu' = [mu EXCEPT !.w = 0]
    /\ deks' = [x \in DOMAIN deks |-> [deks[x] EXCEPT !.MasterKeyID = loc[w].newMK.ID]]
    /\ Return(w, "", req[w], [NoResp EXCEPT !.status = StatusOK,
                                            !.masterKeyID = loc[w].newMK.ID,
                                            !.key = loc[w].newMK])
    /\ UNCHANGED <<call, storeErr, masterKeys, activeKeyID, oids, uuids,
                   nreq, ngen, wraps, encs, activeHist>>

\* m.mu.Unlock(), the return of the new key and the handler's response.
RotateUnlock(w) ==
    /\ At(w, "rot_unlock")
    /\ mu' = [mu EXCEPT !.w = 0]
    /\ Return(w, "", req[w], [NoResp EXCEPT !.status = StatusOK,
                                            !.masterKeyID = loc[w].newMK.ID,
                                            !.key = loc[w].newMK])
    /\ UNCHANGED <<call, storeErr, masterKeys, activeKeyID, deks, oids, uuids,
                   nreq, ngen, wraps, encs, activeHist>>

\* ------------------------------------------------------------------------
\* DeleteDataKeyHandler
\* ------------------------------------------------------------------------
\* getIdentity and auth.IsAuthorized; then the body is decoded,
\* s.DEKStore.DeleteDEK called and the response written.
DeleteDataKeyHandler(w) ==
    /\ Arrives(w)
    /\ \E role \in Roles :
        LET err == IsAuthorized(role, ActionOfOp(OpDelete))
        IN  IF err # ""
            THEN /\ Return(w, role, Request(OpDelete), HttpError(err, StatusForbidden))
                 /\ UNCHANGED deks
            ELSE \E q \in Bodies(OpDelete) :
                    IF ~q.bodyOK
                    THEN /\ Return(w, role, q, HttpError("invalid request body",
                                                         StatusBadRequest))
                         /\ UNCHANGED deks
                    ELSE \E ioOK \in BOOLEAN :
                            LET r == DeleteDEK(deks, q.dekID, ioOK)
                            IN  IF r.err # ""
                                THEN /\ Return(w, role, q,
                                               HttpError("failed to delete DEK",
                                                         StatusInternalServerError))
                                     /\ UNCHANGED deks
                                ELSE /\ deks' = r.coll
                                     /\ Return(w, role, q,
                                               [NoResp EXCEPT !.status = StatusNoContent])
    /\ UNCHANGED <<call, storeErr, masterKeys, activeKeyID, mu, oids, uuids,
                   ngen, wraps, encs, activeHist>>

\* ------------------------------------------------------------------------
\* MasterKeyStore.GetActiveKey
\* ------------------------------------------------------------------------
\* A goroutine calls GetActiveKey.
GetActiveKeyStart(w) ==
    /\ Arrives(w)
    /\ Admit(w, Request(OpGetActiveKey), "gak_rlock", NoLoc)
    /\ UNCHANGED <<call, storeErr, masterKeys, activeKeyID, mu, deks, oids, uuids,
                   ngen, wraps, encs, activeHist>>

\* m.mu.RLock()
GetActiveKeyRLock(w) ==
    /\ At(w, "gak_rlock")
    /\ RLockAvailable(mu)
    /\ mu' = [mu EXCEPT !.readers = @ \cup {w}]
    /\ Goto(w, "gak_read", loc[w])
    /\ UNCHANGED <<call, storeErr, masterKeys, activeKeyID, deks, oids, uuids,
                   nreq, ngen, wraps, encs, activeHist>>

\* key, exists := m.masterKeys[m.activeKeyID], and the return with the
\* deferred m.mu.RUnlock()
GetActiveKeyRead(w) ==
    /\ At(w, "gak_read")
    /\ LET l == Lookup(masterKeys, activeKeyID)
       IN  Return(w, "", req[w],
                  IF l.exists
                  THEN [NoResp EXCEPT !.key = l.key]
                  ELSE [NoResp EXCEPT !.msg = "active master key not found"])
    /\ mu' = [mu EXCEPT !.readers = @ \ {w}]
    /\ UNCHANGED <<call, storeErr, masterKeys, activeKeyID, deks, oids, uuids,
                   nreq, ngen, wraps, encs, activeHist>>

\* ------------------------------------------------------------------------
\* Specification
\* ------------------------------------------------------------------------
Next ==
    \E w \in Workers :
        \/ GenerateDataKeyStart(w)
        \/ EncryptDataKeyRLock(w)
        \/ EncryptDataKeyRead(w)
        \/ GenerateInsert(w)
        \/ GenerateDataKeyStartFirst(w)
        \/ GenerateRespondFirst(w)
        \/ EncryptStart(w)
        \/ DecryptStart(w)
        \/ DecryptDataKeyRLock(w)
        \/ DecryptDataKeyRead(w)
        \/ EncryptPayload(w)
        \/ DecryptPayload(w)
        \/ RotateStart(w)
        \/ RotateLock(w)
        \/ RotateLockAcquired(w)
        \/ RotateInsert(w)
        \/ RotateSetActive(w)
        \/ RotateUnlock(w)
        \/ DeleteDataKeyHandler(w)
        \/ GetActiveKeyStart(w)
        \/ GetActiveKeyRLock(w)
        \/ GetActiveKeyRead(w)

Spec == Init /\ [][Next]_vars

\* ------------------------------------------------------------------------
\* The master key store on its own: the constructor is called with a list
\* of keys, and one goroutine then calls a method of the store it returned.
\* ------------------------------------------------------------------------
StoreKeyMaterials ==
    {Bytes(1, KeySize), Bytes(2, KeySize), Bytes(1, KeySize - 1), Bytes(1, KeySize + 1)}

StoreKeys == {[ID |-> ConfigId(i), Key |-> m] : i \in 0..1, m \in StoreKeyMaterials}

StoreKeyLists == UNION {[1..n -> StoreKeys] : n \in 0..MaxKeys}

StoreInit == Boot(StoreKeyLists)

\* The ids a caller may pass: those of the configuration and one more.
StoreIdInputs == {ConfigId(0), ConfigId(1), ConfigId(2)}

\* The keys a blob may have been sealed with: those of the table and one
\* that the table does not hold.
SealKeyInputs == {masterKeys[x].Key : x \in DOMAIN masterKeys} \cup {Bytes(3, KeySize)}

\* What a caller may pass for a blob that was sealed as b: b itself, b with
\* one byte of its nonce, of its ciphertext or of its tag changed, b cut
\* short, and the empty blob.
ChangedAt(b, i) == [b EXCEPT ![i] = (@ + 1) % ByteMod]

BlobInputs(b) ==
    {b, ChangedAt(b, 1), ChangedAt(b, NonceSize + 1), ChangedAt(b, Len(b)),
     SliceTo(b, Len(b) - 1), SliceTo(b, NonceSize + TagSize - 1), SliceTo(b, NonceSize)}
    \cup {SliceTo(b, n) : n \in 0..(NonceSize - 1)}

\* The store is there and no call has been made on it yet.
StoreReady ==
    /\ storeErr = ""
    /\ call.fn = "NewMasterKeyStore"

\* GetActiveKey, from m.mu.RLock() to the deferred m.mu.RUnlock().
CallGetActiveKey ==
    /\ StoreReady
    /\ RLockAvailable(mu)
    /\ LET l == Lookup(masterKeys, activeKeyID)
       IN  call' = [call EXCEPT !.fn = "GetActiveKey",
                                !.outKey = IF l.exists THEN l.key ELSE NoKey,
                                !.err = IF l.exists THEN ""
                                        ELSE "active master key not found"]
    /\ UNCHANGED <<storeErr, masterKeys, activeKeyID, mu, deks, oids, uuids, pc, req,
                   loc, last, nreq, ngen, wraps, encs, activeHist>>

\* DecryptDataKey(encryptedDEK, masterKeyID), from m.mu.RLock() to its
\* return.
CallDecryptDataKey ==
    /\ StoreReady
    /\ RLockAvailable(mu)
    /\ \E sealKey \in SealKeyInputs, seed \in DekSeeds, n \in NonceSeeds :
        LET dek   == Bytes(seed, KeySize)
            nonce == Bytes(n, NonceSize)
            base  == Seal(sealKey, nonce, dek)
        IN  \E blob \in BlobInputs(base), id \in StoreIdInputs :
                LET l == Lookup(masterKeys, id)
                    r == DecryptDataKeyWith(l.key, l.exists, blob)
                IN  call' = [call EXCEPT !.fn = "DecryptDataKey", !.id = id,
                                         !.sealKey = sealKey, !.plaintext = dek,
                                         !.nonce = nonce, !.base = base, !.blob = blob,
                                         !.err = r.err, !.out = r.dek]
    /\ UNCHANGED <<storeErr, masterKeys, activeKeyID, mu, deks, oids, uuids, pc, req,
                   loc, last, nreq, ngen, wraps, encs, activeHist>>

StoreNext ==
    \/ CallGetActiveKey
    \/ CallDecryptDataKey

StoreSpec == StoreInit /\ [][StoreNext]_vars

\* ------------------------------------------------------------------------
\* The crypto package on its own: EncryptAES256GCM is called with a key and
\* a payload, and DecryptAES256GCM with a key and what became of the blob.
\* IsAuthorized is called on its own as well.
\* ------------------------------------------------------------------------
CipherInit == Boot({<<GoodKey(0, 1), GoodKey(1, 2)>>})

\* Keys of 32 bytes, and one that aes.NewCipher refuses.
EncryptKeyInputs == {Bytes(1, KeySize), Bytes(2, KeySize), Bytes(1, KeySize - 1)}

\* For decryption also the AES-128 key with the bytes of the first key.
DecryptKeyInputs == EncryptKeyInputs \cup {Bytes(1, 16)}

CipherPayloads == {<<>>, <<7>>, PayloadSpaced}

CipherNonceSeeds == {30, 31}

\* What a caller may pass for a blob that was sealed as b: b itself, b with
\* any one byte changed, every proper prefix of b, and b with a byte added.
AllBlobInputs(b) ==
    {b, b \o <<0>>}
    \cup {ChangedAt(b, i) : i \in 1..Len(b)}
    \cup {SliceTo(b, n) : n \in 0..(Len(b) - 1)}

\* EncryptAES256GCM(key, plaintext)
CallEncryptAES256GCM ==
    /\ call.fn = "NewMasterKeyStore"
    /\ \E key \in EncryptKeyInputs, p \in CipherPayloads, randOK \in BOOLEAN,
          n \in CipherNonceSeeds :
        LET nonce == IF randOK THEN Bytes(n, NonceSize) ELSE <<>>
            r == IF ~NewCipherOK(key) \/ randOK
                 THEN EncryptAES256GCM(key, p, nonce)
                 ELSE [err |-> "failed to generate nonce", ciphertext |-> <<>>]
        IN  call' = [call EXCEPT !.fn = "EncryptAES256GCM", !.key = key,
                                 !.sealKey = key, !.plaintext = p, !.nonce = nonce,
                                 !.base = r.ciphertext, !.blob = r.ciphertext,
                                 !.err = r.err]
    /\ UNCHANGED <<storeErr, masterKeys, activeKeyID, mu, deks, oids, uuids, pc, req,
                   loc, last, nreq, ngen, wraps, encs, activeHist>>

\* DecryptAES256GCM(key, ciphertext), on what became of a blob that
\* EncryptAES256GCM returned.
CallDecryptAES256GCM ==
    /\ call.fn = "EncryptAES256GCM"
    /\ call.err = ""
    /\ \E key \in DecryptKeyInputs, blob \in AllBlobInputs(call.base) :
        LET r == DecryptAES256GCM(key, blob)
        IN  call' = [call EXCEPT !.fn = "DecryptAES256GCM", !.key = key, !.blob = blob,
                                 !.err = r.err, !.out = r.plaintext]
    /\ UNCHANGED <<storeErr, masterKeys, activeKeyID, mu, deks, oids, uuids, pc, req,
                   loc, last, nreq, ngen, wraps, encs, activeHist>>

\* Action is a string type: besides the four constants of the package a
\* caller of IsAuthorized may pass any other string.
OtherAction == "EXPORT_KEY"

ActionInputs ==
    {ActionGenerateDataKey, ActionEncrypt, ActionDecrypt, ActionRotateMasterKey,
     OtherAction}

\* auth.IsAuthorized(Identity{Role: role}, action)
CallIsAuthorized ==
    /\ call.fn = "NewMasterKeyStore"
    /\ \E role \in Roles, action \in ActionInputs :
        call' = [call EXCEPT !.fn = "IsAuthorized", !.role = role, !.action = action,
                             !.err = IsAuthorized(role, action)]
    /\ UNCHANGED <<storeErr, masterKeys, activeKeyID, mu, deks, oids, uuids, pc, req,
                   loc, last, nreq, ngen, wraps, encs, activeHist>>

CipherNext ==
    \/ CallEncryptAES256GCM
    \/ CallDecryptAES256GCM
    \/ CallDecryptDataKey
    \/ CallIsAuthorized

CipherSpec == CipherInit /\ [][CipherNext]_vars

\* ------------------------------------------------------------------------
\* The key store under scheduling that is fair.  The callers are the
\* rotations, which write, and calls of GetActiveKey, which read and keep
\* arriving without end.  (EncryptDataKey and DecryptDataKey take and give
\* back the read lock around one read of the map, as GetActiveKey does.)
\* The Go runtime runs every goroutine that can run, and sync.RWMutex wakes
\* the goroutines that wait for it: a worker inside an operation whose next
\* step stays possible takes it.  No request has to arrive.
\* ------------------------------------------------------------------------
\* One more call of GetActiveKey; these calls are not counted.
GetActiveKeyAgain(w) ==
    /\ storeErr = ""
    /\ At(w, "idle")
    /\ Admit(w, Request(OpGetActiveKey), "gak_rlock", NoLoc)
    /\ UNCHANGED <<call, storeErr, masterKeys, activeKeyID, mu, deks, oids, uuids,
                   nreq, ngen, wraps, encs, activeHist>>

\* The steps of worker w inside an operation.
StoreStep(w) ==
    \/ RotateLock(w)
    \/ RotateLockAcquired(w)
    \/ RotateInsert(w)
    \/ RotateSetActive(w)
    \/ RotateUnlock(w)
    \/ GetActiveKeyRLock(w)
    \/ GetActiveKeyRead(w)

LockNext ==
    \E w \in Workers :
        \/ RotateStart(w)
        \/ GetActiveKeyAgain(w)
        \/ StoreStep(w)

LockSpec ==
    /\ Init
    /\ [][LockNext]_vars
    /\ \A w \in Workers : WF_vars(StoreStep(w))

\* ------------------------------------------------------------------------
\* The routes and the authentication middleware.  Every route is registered
\* as RateLimitMiddleware(firebaseAuthMiddleware(handler)), and the rate
\* limiter calls what it wraps.  The sources hold two route tables: the one
\* of router.go, which is the file whose NewServer main calls, has no route
\* for /delete-data-key; the other one has all five.  Spec follows the
\* requests that the middleware hands to a handler, with the role of the
\* identity it has resolved; RouterSpec follows the other requests as well.
\* ------------------------------------------------------------------------
\* What a request carries: no Authorization header, a header that is not
\* "Bearer <token>", a token that VerifyIDToken rejects, a token whose uid
\* GetUserByFirebaseUID does not find, or the token of a known user.
Credentials == {"none", "malformed", "unverified", "nouser", "ok"}

\* firebaseAuthMiddleware: the message of its http.Error, "" when it calls
\* next.
FirebaseAuthMiddleware(cred) ==
    CASE cred = "none" -> "Authorization header missing"
      [] cred = "malformed" -> "Invalid Authorization header format"
      [] cred = "unverified" -> "Invalid or expired token"
      [] cred = "nouser" -> "User not found"
      [] OTHER -> ""

\* Routes of router.go
RoutesOfRouter == {OpGenerate, OpEncrypt, OpDecrypt, OpRotate}

\* Routes of the second definition
RoutesWithDelete == {OpGenerate, OpEncrypt, OpDecrypt, OpRotate, OpDelete}

RouteTables == {RoutesOfRouter, RoutesWithDelete}

\* A request that reaches no handler: its path is not registered and the
\* mux answers with http.NotFound, or the middleware answers and returns.
AnsweredBeforeHandler(w) ==
    /\ Arrives(w)
    /\ \E routes \in RouteTables, op \in HandlerOps, cred \in Credentials :
        LET q == [Request(op) EXCEPT !.cred = cred]
            err == FirebaseAuthMiddleware(cred)
        IN  /\ op \notin routes \/ err # ""
            /\ IF op \notin routes
               THEN Return(w, "", q, HttpError("404 page not found", StatusNotFound))
               ELSE Return(w, "", q, HttpError(err, StatusUnauthorized))
    /\ UNCHANGED <<call, storeErr, masterKeys, activeKeyID, mu, deks, oids, uuids,
                   ngen, wraps, encs, activeHist>>

RouterNext ==
    \/ Next
    \/ \E w \in Workers : AnsweredBeforeHandler(w)

RouterSpec == Init /\ [][RouterNext]_vars

\* ------------------------------------------------------------------------
\* The server after a restart.  The collection of wrapped DEKs is kept by
\* the database and outlives the process; the keys that RotateMasterKey
\* added live in the memory of the process and do not, and the key list of
\* the configuration may have changed.  The collection holds a record that
\* was wrapped under a key added by a rotation of the earlier process, a
\* record wrapped under the first configured id when that id had other key
\* material, and records wrapped under the first configured key as it is.
\* The server is followed through its /encrypt and /decrypt requests.
\* ------------------------------------------------------------------------
WrappedUnder(k) ==
    EncryptDataKeyWith(k, TRUE, GenerateKey(20), TRUE, Bytes(30, NonceSize))

LostKeyDoc ==
    [DEK |-> WrappedUnder([ID |-> NewUUID(1), Key |-> Bytes(11, KeySize)]).ciphertext,
     MasterKeyID |-> NewUUID(1)]

StaleKeyDoc ==
    [DEK |-> WrappedUnder([ID |-> ConfigId(0), Key |-> Bytes(9, KeySize)]).ciphertext,
     MasterKeyID |-> ConfigId(0)]

SoundDoc ==
    [DEK |-> WrappedUnder(GoodKey(0, 1)).ciphertext, MasterKeyID |-> ConfigId(0)]

RestartDeks ==
    [i \in 1..MaxDeks |-> CASE i = 1 -> LostKeyDoc
                            [] i = 2 -> StaleKeyDoc
                            [] OTHER -> SoundDoc]

RestartInit == BootWith({<<GoodKey(0, 1), GoodKey(1, 2)>>}, RestartDeks, MaxDeks)

RestartNext ==
    \E w \in Workers :
        \/ EncryptStart(w)
        \/ DecryptStart(w)
        \/ DecryptDataKeyRLock(w)
        \/ DecryptDataKeyRead(w)
        \/ EncryptPayload(w)
        \/ DecryptPayload(w)

RestartSpec == RestartInit /\ [][RestartNext]_vars

\* ------------------------------------------------------------------------
\* Properties
\* ------------------------------------------------------------------------
Actions == {ActionGenerateDataKey, ActionEncrypt, ActionDecrypt, ActionRotateMasterKey}

DefinedRoles == {RoleAdmin, RoleService, RoleAuditor}

\* The authorization table: the (role, action) pairs that are allowed.
AllowedPairs ==
    ({RoleAdmin} \X Actions)
    \cup ({RoleService} \X {ActionGenerateDataKey, ActionEncrypt, ActionDecrypt})

\* The (role, operation) pairs the table allows; deleting a data key is
\* allowed to ADMIN alone.
AllowedOps ==
    ({RoleAdmin} \X HandlerOps)
    \cup ({RoleService} \X {OpGenerate, OpEncrypt, OpDecrypt})

\* The recorded answer is that of the step that authorized the request.
Authorizing == last.role # "" /\ last.req.op \in HandlerOps

\* C1: IsAuthorized allows exactly the pairs of the authorization table
\* (ADMIN every action; SERVICE generate, encrypt and decrypt, and neither
\* rotation nor the deletion of a data key; AUDITOR nothing), and a role
\* outside the three defined ones is denied every action with the reason
\* "unknown role"; every handler answers accordingly.
C1_AuthorizationTable ==
    /\ \A role \in Roles, a \in Actions :
        (IsAuthorized(role, a) = "") <=> (<<role, a>> \in AllowedPairs)
    /\ \A role \in Roles \ DefinedRoles, a \in Actions :
        IsAuthorized(role, a) = "unknown role"
    /\ Authorizing =>
        /\ (last.resp.status = StatusForbidden)
              <=> (<<last.role, last.req.op>> \notin AllowedOps)
        /\ (last.resp.status = StatusForbidden /\ last.role \notin DefinedRoles)
              => last.resp.msg = "unknown role"

C1_Witness ==
    /\ last.role = "GUEST"
    /\ last.req.op = OpEncrypt
    /\ last.resp = HttpError("unknown role", StatusForbidden)

\* C2: a DeleteDataKey request removes a record of the DEK store only when
\* the caller's role is ADMIN; for every other role the request is answered
\* as forbidden and the DEK store is left as it was.
C2_DeleteOnlyByAdmin ==
    [][/\ (last'.req.op = OpDelete /\ last'.role # RoleAdmin)
            => (last'.resp.status = StatusForbidden /\ deks' = deks)
       /\ (last' # NoLast /\ \E id \in DOMAIN deks : id \notin DOMAIN deks')
            => (last'.req.op = OpDelete /\ last'.role = RoleAdmin)]_vars

C2_Witness ==
    /\ last.req.op = OpDelete
    /\ last.role = RoleService
    /\ last.resp.status = StatusForbidden
    /\ DOMAIN deks # {}

\* C3: in each of the five operations a request whose authorization is
\* denied is answered as forbidden before any other work is done: the key
\* table, the active id and the DEK store are the same after the request as
\* before it, and no key is generated, no id issued, nothing wrapped or
\* encrypted.
C3_DeniedDoesNothing ==
    [][(last' # NoLast /\ last'.role # "" /\ last'.req.op \in HandlerOps
        /\ <<last'.role, last'.req.op>> \notin AllowedOps)
            => /\ last'.resp.status = StatusForbidden
               /\ UNCHANGED <<call, masterKeys, activeKeyID, mu, deks, oids, uuids, ngen,
                              wraps, encs, activeHist, loc>>]_vars

C3_Witness ==
    /\ last.req.op = OpRotate
    /\ last.role = RoleService
    /\ last.resp.status = StatusForbidden
    /\ uuids = 0

\* C4: in every state of a store that NewMasterKeyStore has built,
\* activeKeyID is a key of the masterKeys table, and neither GetActiveKey
\* nor EncryptDataKey finds the active key missing.
C4_ActiveKeyResolves ==
    storeErr = "" =>
        /\ activeKeyID \in DOMAIN masterKeys
        /\ last.resp.msg # "active master key not found"
        /\ last.req.op = OpGetActiveKey => last.resp.key # NoKey
        /\ \A w \in Workers : pc[w] = "edk_seal" => loc[w].exists

C4_Witness ==
    /\ last.req.op = OpGetActiveKey
    /\ last.resp.key.ID = NewUUID(1)
    /\ activeKeyID = NewUUID(1)

\* C5: the master key table is append-only: an id that maps to some key
\* material maps to the same material in every later state.
C5_AppendOnly ==
    [][\A id \in DOMAIN masterKeys :
          id \in DOMAIN masterKeys' /\ masterKeys'[id] = masterKeys[id]]_vars

C5_Witness ==
    /\ Cardinality(DOMAIN masterKeys) = 4
    /\ {ConfigId(0), ConfigId(1)} \subseteq DOMAIN masterKeys

\* C6: rotation durability: every (blob, id) that EncryptDataKey has
\* returned for a DEK d is decrypted to d by DecryptDataKey(blob, id) in
\* every later state, also when id is no longer the active key: no wrap
\* has been returned at the start, and every step that returns a wrap or
\* changes the key table leaves every wrap returned so far decryptable.
C6_RotationDurability ==
    [][(masterKeys' # masterKeys \/ wraps' # wraps) =>
          \A x \in wraps' :
              LET l == Lookup(masterKeys', x.id)
                  r == DecryptDataKeyWith(l.key, l.exists, x.blob)
              IN  r.err = "" /\ r.dek = x.dek]_vars

C6_Witness ==
    /\ uuids = 2
    /\ \E x \in wraps : x.id = ConfigId(0) /\ activeKeyID = NewUUID(2)

\* C7: a successful RotateMasterKey returns a key K of 32 bytes whose id was
\* not in the key table; directly after its write-locked assignments the
\* table is the previous table plus K and activeKeyID is K.ID.
C7_RotateInstallsFreshKey ==
    /\ \A w \in Workers : pc[w] = "rot_unlock" =>
        LET K == loc[w].newMK
            prev == loc[w].prevKeys
        IN  /\ Len(K.Key) = 32
            /\ K.ID \notin DOMAIN prev
            /\ DOMAIN masterKeys = (DOMAIN prev) \cup {K.ID}
            /\ \A id \in DOMAIN prev : masterKeys[id] = prev[id]
            /\ masterKeys[K.ID] = K
            /\ activeKeyID = K.ID
    /\ (last.req.op = OpRotate /\ last.resp.status = StatusOK) =>
        /\ Len(last.resp.key.Key) = 32
        /\ last.resp.masterKeyID = last.resp.key.ID
        /\ Lookup(masterKeys, last.resp.key.ID).key = last.resp.key

C7_Witness ==
    \E w \in Workers :
        /\ pc[w] = "rot_unlock"
        /\ loc[w].newMK.ID = NewUUID(2)
        /\ Cardinality(DOMAIN masterKeys) = 4

\* C8: activeKeyID advances through distinct ids: every rotation makes
\* active an id that has never been active, no id becomes active again, and
\* there is always an active id.
C8_ActiveIdNeverReturns ==
    storeErr = "" =>
        /\ Len(activeHist) >= 1
        /\ activeHist[Len(activeHist)] = activeKeyID
        /\ activeKeyID # NoId
        /\ \A i, j \in 1..Len(activeHist) : i # j => activeHist[i] # activeHist[j]

C8_Witness ==
    /\ Len(activeHist) = 3
    /\ activeKeyID = NewUUID(2)
    /\ \A w \in Workers : pc[w] = "idle"

\* C9: rotation is atomic for the readers: a reader inside EncryptDataKey or
\* GetActiveKey obtains an entry of the key table that is or has been the
\* active key, and never reads between the insertion of the new key and
\* the change of activeKeyID; while the writer is inside, no reader is.
C9_RotationAtomicForReaders ==
    /\ \A w \in Workers : pc[w] = "edk_seal" =>
        /\ loc[w].exists
        /\ ~loc[w].sawHalf
        /\ Lookup(masterKeys, loc[w].key.ID).key = loc[w].key
        /\ \E i \in 1..Len(activeHist) : activeHist[i] = loc[w].key.ID
    /\ (last.req.op = OpGetActiveKey) =>
        /\ ~HalfUpdated
        /\ last.resp.key = Lookup(masterKeys, activeKeyID).key
    /\ \A w \in Workers :
        pc[w] \in {"rot_insert", "rot_setactive", "rot_unlock"} => mu.readers = {}

C9_Witness ==
    \E w, v \in Workers :
        /\ pc[w] = "edk_seal"
        /\ pc[v] \in {"rot_insert", "rot_setactive", "rot_unlock"}
        /\ loc[w].key.ID # loc[v].newMK.ID

\* C10: end-to-end round trip: when Encrypt has returned the ciphertext C
\* for the DEK record r and the payload p, and r has not been deleted,
\* Decrypt of C with r does not fail to unwrap, decode or decrypt, and the
\* jsonData it returns is p, byte for byte.
C10_RoundTripReturnsPayload ==
    \A e \in encs :
        (/\ last.req.op = OpDecrypt
         /\ last.req.dekID = e.dekID
         /\ last.req.ciphertext = e.ciphertext
         /\ e.dekID \in DOMAIN deks)
        => /\ last.resp.msg \notin {"failed to unwrap DEK", "invalid base64 ciphertext",
                                    "decryption failed"}
           /\ last.resp.status = StatusOK => last.resp.jsonData = e.jsonData

\* ------------------------------------------------------------------------
\* C14  A rotation never re-wraps: every step of a rotation request, from
\* its authorization to its response, leaves every record of the DEK store
\* as it was (the wrapped blob and the master key id) and inserts, reads
\* and deletes nothing there.
\* ------------------------------------------------------------------------
RotateLabels == {"rot_lock", "rot_wait", "rot_insert", "rot_setactive", "rot_unlock"}

RotationStep ==
    \/ \E w \in Workers : /\ pc'[w] # pc[w]
                          /\ (pc[w] \in RotateLabels \/ pc'[w] \in RotateLabels)
    \/ (last' # NoLast /\ last'.req.op = OpRotate)

C14_RotationNeverRewraps ==
    [][RotationStep => (deks' = deks /\ oids' = oids)]_vars

\* A rotation has completed while the DEK store holds a record wrapped under
\* the key that was active before it.
C14_Witness ==
    /\ last # NoLast /\ last.req.op = OpRotate /\ last.resp.status = StatusOK
    /\ activeKeyID = NewUUID(1)
    /\ \E x \in DOMAIN deks : deks[x].MasterKeyID = ConfigId(0)

\* ------------------------------------------------------------------------
\* C15  The plaintext DEK never leaves GenerateDataKey: a successful request
\* answers with exactly the id of the record and the id of the master key
\* used; the record it inserts holds the wrapped DEK, which opens to the DEK
\* under that master key, and that master key id, and nothing else; the
\* bytes of the DEK are neither in the response nor in the record.
\* ------------------------------------------------------------------------
\* sub occurs in s as a run of consecutive bytes.
Contains(s, sub) ==
    \E i \in 0..(Len(s) - Len(sub)) : SubSeq(s, i + 1, i + Len(sub)) = sub

GenerateSucceeds(w) ==
    /\ pc[w] = "edk_seal" /\ pc'[w] = "idle"
    /\ last' # NoLast /\ last'.resp.status = StatusOK

C15_PlaintextDekStaysInside ==
    [][\A w \in Workers :
         GenerateSucceeds(w) =>
            LET r  == last'.resp
                id == r.dekID
            IN  /\ r = [NoResp EXCEPT !.status = StatusOK, !.dekID = id,
                                      !.masterKeyID = r.masterKeyID]
                /\ id \notin DOMAIN deks
                /\ DOMAIN deks' = (DOMAIN deks) \cup {id}
                /\ \A x \in DOMAIN deks : deks'[x] = deks[x]
                /\ DOMAIN deks'[id] = {"DEK", "MasterKeyID"}
                /\ deks'[id].MasterKeyID = r.masterKeyID
                /\ r.masterKeyID \in DOMAIN masterKeys
                /\ LET u == DecryptDataKeyWith(masterKeys[r.masterKeyID], TRUE,
                                               deks'[id].DEK)
                   IN  u.err = "" /\ u.dek = loc[w].dek
                /\ ~Contains(deks'[id].DEK, loc[w].dek)]_vars

\* ------------------------------------------------------------------------
\* C16  GenerateDataKey has no partial success: when InsertDEK returns an
\* error, the request fails without a record id, and the DEK store and the
\* master key store are as they were before the request.
\* ------------------------------------------------------------------------
\* The step of worker w in which the handler answers after the seal.
GenerateAnswers(w) ==
    /\ pc[w] = "edk_seal" /\ pc'[w] = "idle"
    /\ last' # NoLast

\* The handler has answered that the insert failed: after the seal, this is
\* the only branch with that message (a failed wrapping answers "encryption
\* failed").
InsertReportedFailure(w) ==
    /\ GenerateAnswers(w)
    /\ last'.resp.msg = "internal server error"

C16_NoPartialSuccess ==
    [][\A w \in Workers :
         InsertReportedFailure(w) =>
            /\ last'.resp.status = StatusInternalServerError
            /\ last'.resp.dekID = 0
            /\ deks' = deks
            /\ masterKeys' = masterKeys /\ activeKeyID' = activeKeyID]_vars

\* ------------------------------------------------------------------------
\* C17  DeleteDataKey reports success only when a record with the given id
\* existed and was removed, and reports not-found (some answer other than
\* success) when no record has that id.
\* ------------------------------------------------------------------------
DeleteAnswers ==
    /\ last' # NoLast /\ last'.req.op = OpDelete
    /\ last'.resp.status # StatusForbidden

C17_DeleteTellsNotFound ==
    [][DeleteAnswers =>
         LET id      == last'.req.dekID
             success == last'.resp.status \in {StatusOK, StatusNoContent}
         IN  /\ success => (id \in DOMAIN deks /\ id \notin DOMAIN deks')
             /\ (last'.req.bodyOK /\ id \notin DOMAIN deks) => ~success]_vars

\* ------------------------------------------------------------------------
\* C11  NewMasterKeyStore returns an error and no store exactly when the
\* list is empty or some key of it, at whatever position, has material that
\* is not 32 bytes long; for every other list it returns a store, which
\* holds the ids of the list.
\* ------------------------------------------------------------------------
BadKeyList(keys) ==
    \/ Len(keys) = 0
    \/ \E i \in 1..Len(keys) : Len(keys[i].Key) # 32

C11_ConstructorValidates ==
    call.fn = "NewMasterKeyStore" =>
        /\ (call.err # "") <=> BadKeyList(call.keys)
        /\ storeErr = call.err
        /\ call.err # "" => (masterKeys = EmptyMap /\ activeKeyID = NoId)
        /\ call.err = "" =>
              /\ DOMAIN masterKeys = {call.keys[i].ID : i \in 1..Len(call.keys)}
              /\ activeKeyID \in DOMAIN masterKeys

\* The constructor has refused a list whose first key is good and whose
\* second key is one byte too long.
C11_Witness ==
    /\ call.fn = "NewMasterKeyStore"
    /\ Len(call.keys) = 2
    /\ Len(call.keys[1].Key) = 32 /\ Len(call.keys[2].Key) = 33
    /\ call.err = "master key must be 32 bytes for AES-256"

\* ------------------------------------------------------------------------
\* C12  After a successful NewMasterKeyStore(keys), GetActiveKey returns the
\* first key of the list, its id and its material, also when two entries of
\* the list carry the same id.
\* ------------------------------------------------------------------------
C12_FirstKeyIsActive ==
    call.fn = "GetActiveKey" =>
        /\ call.err = ""
        /\ call.outKey.ID = call.keys[1].ID
        /\ call.outKey.Key = call.keys[1].Key

\* ------------------------------------------------------------------------
\* C13  DecryptDataKey(blob, id) fails with the key-not-found error exactly
\* when id is not in the key table; when id is there and the blob was not
\* sealed as given under the material of that key, it fails with another
\* error; in both cases it returns no bytes.  A blob sealed under the
\* material of the key with the given id is opened, whether or not that key
\* is the active one.  The call leaves the store as it was.
\* ------------------------------------------------------------------------
KeyNotFound == "specified master key not found"

C13_UnwrapErrors ==
    [][call'.fn = "DecryptDataKey" =>
         LET c         == call'
             present   == c.id \in DOMAIN masterKeys
             authentic == /\ present
                          /\ c.blob = c.base
                          /\ masterKeys[c.id].Key = c.sealKey
         IN  /\ (c.err = KeyNotFound) <=> ~present
             /\ (present /\ ~authentic) => c.err \notin {"", KeyNotFound, Panic}
             /\ c.err # "" => c.out = <<>>
             /\ authentic => (c.err = "" /\ c.out = c.plaintext)
             /\ UNCHANGED <<storeErr, masterKeys, activeKeyID, mu>>]_vars

\* A blob sealed under the active key was refused for the id of another key
\* of the table, with an error that is not key-not-found.
C13_Witness ==
    /\ call.fn = "DecryptDataKey"
    /\ call.id \in DOMAIN masterKeys /\ call.id # activeKeyID
    /\ call.sealKey = masterKeys[activeKeyID].Key
    /\ call.sealKey # masterKeys[call.id].Key
    /\ call.blob = call.base
    /\ call.err = "cipher: message authentication failed"

\* ------------------------------------------------------------------------
\* C18  Cipher round trip: for every 32-byte key and every payload, the
\* empty one included, EncryptAES256GCM succeeds once it has its nonce, and
\* DecryptAES256GCM with the same key returns the payload from the blob,
\* without error, whichever nonce was drawn.
\* ------------------------------------------------------------------------
C18_CipherRoundTrip ==
    /\ (call.fn = "EncryptAES256GCM" /\ Len(call.key) = 32 /\ call.nonce # <<>>) =>
            (call.err = "" /\ Len(call.blob) = 12 + Len(call.plaintext) + 16)
    /\ (call.fn = "DecryptAES256GCM" /\ call.key = call.sealKey /\ call.blob = call.base)
            => (call.err = "" /\ call.out = call.plaintext)

\* The empty payload has come back from its blob of a nonce and a tag.
C18_Witness ==
    /\ call.fn = "DecryptAES256GCM"
    /\ call.key = call.sealKey /\ call.blob = call.base
    /\ Len(call.blob) = NonceSize + TagSize
    /\ call.plaintext = <<>>
    /\ call.err = "" /\ call.out = <<>>

\* ------------------------------------------------------------------------
\* C19  Tamper and wrong-key detection: DecryptAES256GCM fails and returns
\* no plaintext for every blob that differs from the sealed one (in its
\* nonce, its ciphertext or its tag, or in its length) and for every key
\* other than the sealing key; it never returns a plaintext other than the
\* one that was sealed.
\* ------------------------------------------------------------------------
C19_TamperDetected ==
    call.fn = "DecryptAES256GCM" =>
        /\ (call.blob # call.base \/ call.key # call.sealKey) =>
                (call.err \notin {"", Panic} /\ call.out = <<>>)
        /\ call.err = "" => call.out = call.plaintext

\* A blob whose last tag byte was changed was refused under the right key.
C19_Witness ==
    /\ call.fn = "DecryptAES256GCM"
    /\ call.key = call.sealKey
    /\ call.blob = ChangedAt(call.base, Len(call.base))
    /\ call.plaintext = PayloadSpaced
    /\ call.err = "failed to decrypt ciphertext"

\* ------------------------------------------------------------------------
\* C20  Truncation: for every blob shorter than 12 bytes, the empty one
\* included, and every key, DecryptAES256GCM and DecryptDataKey return an
\* error; they do not slice past the end of the blob (no panic) and return
\* no plaintext.
\* ------------------------------------------------------------------------
C20_ShortBlobRefused ==
    (call.fn \in {"DecryptAES256GCM", "DecryptDataKey"} /\ Len(call.blob) < 12) =>
        (call.err \notin {"", Panic} /\ call.out = <<>>)

\* DecryptAES256GCM has refused a blob of 11 bytes under a 32-byte key.
C20_Witness ==
    /\ call.fn = "DecryptAES256GCM"
    /\ Len(call.blob) = 11
    /\ Len(call.key) = 32
    /\ call.err = "ciphertext too short"

\* C23: IsAuthorized returns a decision for every role and action, and it
\* allows no pair outside the authorization table; an action that is not
\* one of the defined ones is denied to every role, ADMIN included.
C23_DenyByDefault ==
    call.fn = "IsAuthorized" =>
        /\ call.err \in {"", "action not authorized for SERVICE role",
                         "action not authorized for AUDITOR role", "unknown role"}
        /\ call.err = "" => <<call.role, call.action>> \in AllowedPairs

\* C25: a denial tells which action was denied: the message a role is
\* answered with when one operation is denied is not the message it is
\* answered with when another operation is denied.
C25_DenialNamesAction ==
    (Authorizing /\ last.resp.status = StatusForbidden) =>
        \A op \in HandlerOps \ {last.req.op} :
            last.resp.msg # IsAuthorized(last.role, ActionOfOp(op))

\* C21: DecryptHandler is no decryption oracle: a ciphertext that was cut
\* below the size of a nonce, one whose body or tag was changed and one
\* sealed under another key are all answered with the same status and the
\* same message.
C21_NoDecryptionOracle ==
    (last.req.op = OpDecrypt /\ last.req.ciphertext \in RefusedInputs) =>
        last.resp = HttpError("decryption failed", StatusInternalServerError)

\* A truncated ciphertext was refused.
C21_Witness ==
    /\ last.req.op = OpDecrypt
    /\ \E e \in encs : last.req.ciphertext = Truncated(e.ciphertext)
    /\ last.resp = HttpError("decryption failed", StatusInternalServerError)

\* The recorded answer is that of /encrypt or /decrypt after the unwrap
\* step, on the record d.
AnsweredOn(d) ==
    /\ last.req.op \in {OpEncrypt, OpDecrypt}
    /\ last.role = ""
    /\ last.req.dekID \in DOMAIN deks
    /\ deks[last.req.dekID] = d

\* C22: when the record names a master key that is not in the key table,
\* the answer of /encrypt and /decrypt is not the answer given when the
\* wrapped DEK fails authentication under a master key that is there.
C22_KeyNotFoundSurfaced ==
    AnsweredOn(LostKeyDoc) => last.resp # UnwrapFailed

\* The worker has the lock of the key store: as a reader, or as the writer
\* from the moment it has announced itself.
Holds(w) == w \in mu.readers \/ mu.w = w

\* The labels of a worker whose next step calls the DEK store (GetDEK,
\* DeleteDEK at the start of a handler, InsertDEK after the wrap) or reads
\* the identity of the request.
IOLabels == {"idle", "edk_seal"}

\* C24: a request that is about to call the DEK store or to resolve the
\* identity holds the lock of the key store neither as reader nor as
\* writer.
C24_NoLockAcrossIO == \A w \in Workers : pc[w] \in IOLabels => ~Holds(w)

\* A request is about to insert its record while another one has the lock.
C24_Witness ==
    \E w \in Workers, v \in Workers : pc[w] = "edk_seal" /\ Holds(v) /\ deks # <<>>

\* The step in which worker w answers /generate-data-key with success.
GenerateReturns(w) ==
    /\ pc[w] = "edk_seal"
    /\ pc'[w] = "idle"
    /\ last'.resp.status = StatusOK

\* C26: the key id that EncryptDataKey returns was the active one at some
\* instant between the entry of the call and its return; so a call that
\* was entered after a rotation had returned never wraps under a key that
\* was active before that rotation.  (The call was entered when activeKeyID
\* had taken loc[w].since values; the values it has taken are activeHist.)
C26_WrapsUnderCurrentKey ==
    [][\A w \in Workers : GenerateReturns(w) =>
            /\ loc[w].since \in 1..Len(activeHist)
            /\ \E j \in loc[w].since..Len(activeHist) :
                    activeHist[j] = last'.resp.masterKeyID]_vars

\* /generate-data-key has answered with the id a rotation installed.
C26_Witness ==
    /\ last.req.op = OpGenerate
    /\ last.resp.status = StatusOK
    /\ Len(activeHist) >= 2
    /\ last.resp.masterKeyID = activeHist[2]

\* The rotations that have drawn their key and id and not yet inserted it.
BeforeInsert == {w \in Workers : pc[w] \in {"rot_lock", "rot_wait", "rot_insert"}}

\* The ids in the key table that the configuration did not provide.
NewEntries == {id \in DOMAIN masterKeys : id \notin {ConfigId(i) : i \in 0..MaxKeys}}

\* C27: concurrent rotations lose no key.  Of the uuids rotations that have
\* drawn a key, each one that is past its insertion has added one entry of
\* its own to the table, under an id no other entry has; the table has
\* gained exactly as many entries as rotations have inserted; activeKeyID
\* is the id inserted by the rotation that took the write lock last; and a
\* rotation answers with the key it inserted.
C27_ConcurrentRotationsKeepKeys ==
    storeErr = "" =>
        /\ NewEntries = {NewUUID(n) : n \in 1..uuids} \ {loc[w].newMK.ID : w \in BeforeInsert}
        /\ Cardinality(NewEntries) = uuids - Cardinality(BeforeInsert)
        /\ \A id \in DOMAIN masterKeys : masterKeys[id].ID = id
        /\ \A w \in Workers :
                pc[w] \in {"rot_setactive", "rot_unlock"} => masterKeys[loc[w].newMK.ID] = loc[w].newMK
        /\ \A w \in Workers : pc[w] = "rot_unlock" => activeKeyID = loc[w].newMK.ID
        /\ activeKeyID = activeHist[Len(activeHist)]
        /\ (last.req.op = OpRotate /\ last.resp.status = StatusOK) =>
                /\ last.resp.key.ID \in NewEntries
                /\ masterKeys[last.resp.key.ID] = last.resp.key

\* Two rotations ran at the same time and both are done: the second one
\* waited for the lock while the first had it, and has answered.
C27_Witness ==
    /\ last.req.op = OpRotate
    /\ last.resp.status = StatusOK
    /\ last.resp.key.ID = NewUUID(1)
    /\ activeHist[Len(activeHist)] = NewUUID(1)
    /\ Cardinality(NewEntries) = 2
    /\ BeforeInsert = {}

\* The unwrap step of EncryptHandler or DecryptHandler is next for w.
Unwrapping(w) == pc[w] \in {"e_encrypt", "d_decrypt"}

\* C28: in a server that started with an empty DEK store, every record of
\* the store names a master key that is in the key table and holds a blob
\* that unwraps under that key; and the unwrap step of /encrypt and
\* /decrypt, on the record the handler has fetched, does not fail.
C28_RecordsUnwrap ==
    /\ \A x \in DOMAIN deks :
            LET l == Lookup(masterKeys, deks[x].MasterKeyID)
            IN  /\ l.exists
                /\ DecryptDataKeyWith(l.key, l.exists, deks[x].DEK).err = ""
    /\ \A w \in Workers :
            Unwrapping(w) =>
                DecryptDataKeyWith(loc[w].key, loc[w].exists, loc[w].doc.DEK).err = ""

\* /encrypt is about to unwrap a record of the first configured key when a
\* rotation has made another key the active one.
C28_Witness ==
    \E w \in Workers :
        /\ pc[w] = "e_encrypt"
        /\ loc[w].doc.MasterKeyID = ConfigId(0)
        /\ activeKeyID = NewUUID(1)
        /\ req[w].dekID \in DOMAIN deks

\* C29: a request to one of the five routes that carries no Authorization
\* header, a malformed one, a token that does not verify or a uid without a
\* user record is answered as unauthenticated, and no identity was resolved
\* for it.
C29_UnauthenticatedRefused ==
    (last.req.op \in HandlerOps /\ last.req.cred # "ok") =>
        /\ last.resp = HttpError(FirebaseAuthMiddleware(last.req.cred), StatusUnauthorized)
        /\ last.role = ""

====
